---- MODULE Spec2Model ----
(***************************************************************************)
(* State-machine model of the streamhunter scan engine:                    *)
(*   utils.check_port, StreamScanner.scan_network / scan_host /            *)
(*   scan_mobile_ports / verify_active_stream / check_rtsp / check_hls     *)
(* (specification Spec; with the fairness of the event loop ScanFairSpec;  *)
(* with main's save_streams and the user's interrupt MainSpec), and of the *)
(* stream monitor:                                                         *)
(*   StreamMonitor.start_monitoring / monitor_stream / save_stream_info /  *)
(*   stop_monitoring (specifications MonSpec and, with the fairness of     *)
(*   the event loop, MonFairSpec).                                         *)
(* Every asyncio suspension point (await) of the code is a control state;  *)
(* the code that runs between two suspension points is one atomic step.    *)
(***************************************************************************)
EXTENDS Integers, Sequences, FiniteSets, TLC

(***************************************************************************)
(* Sizes.  The program's values are 20 raw connections, 30 hosts and a /24 *)
(* range of 254 hosts; the model keeps their order (hosts in the range >   *)
(* host permits > connection permits).                                     *)
(***************************************************************************)
MAX_CONCURRENT_SCANS == 1
max_concurrent_hosts == 2
MaxHosts == 3

\* Environment of one run of the scan.  Devices: the addresses of the range
\* that have a device behind them (every connection attempt to another
\* address times out or is refused).  NetworkBudget: how many ports answer,
\* how many urls are confirmed and how many faults happen in one run.
Devices == {1}
NetworkBudget == [open |-> 1, live |-> 1, fault |-> 1]

Hosts == 1..MaxHosts

(***************************************************************************)
(* Protocol catalog (protocols.py) and the path tables of the probers,     *)
(* each list cut to a prefix / a selection of the source's list: one port  *)
(* of the rtsp, hls and rtmp entries of the catalog (the http / https      *)
(* entries run the same verify_active_stream loop as the mobile pass).     *)
(***************************************************************************)
COMMON_STREAMING_PORTS ==
    << <<"rtsp", 554>>, <<"hls", 8081>>, <<"rtmp", 1935>> >>
mobile_ports == <<8080>>
mobile_paths == <<"stream">>
mobile_protocols == <<"http", "https">>
http_video_paths == <<"video", "stream">>
rtsp_video_paths == <<"video", "live">>
hls_video_paths == <<"video">>
hls_variants == <<"index.m3u8", "playlist.m3u8", "master.m3u8">>

\* f"{protocol}://{ip}:{port}/{path}"
Url(protocol, ip, port, path) == <<protocol, ip, port, path>>
UrlHost(u) == u[2]

\* list -> set, as set.update(list) does
ToSet(s) == {s[i] : i \in DOMAIN s}

(***************************************************************************)
(* Outcomes the environment can give to the awaited network operations.    *)
(***************************************************************************)
\* asyncio.wait_for(asyncio.open_connection(..)) + close in check_port
ConnectOutcomes == {"connected", "timeout", "refused", "oserror", "other"}
\* except (asyncio.TimeoutError, ConnectionRefusedError, OSError)
CaughtConnectErrors == {"timeout", "refused", "oserror"}
\* for attempt in range(2); the sleep between attempts is taken `if attempt < 1`
PortAttempts == 2

VARIABLES
    network_range,       \* get_network_range(): the hosts to scan
    sn_pc,               \* position of scan_network
    created,             \* number of scan_host tasks created so far
    result,              \* value returned by scan_network
    total_hosts, scan_count, successful_scans, failed_scans,
    discovered_streams,  \* StreamScanner.discovered_streams
    scanner_streams,     \* keys of StreamScanner.active_streams
    host_semaphore,      \* free permits of self.host_semaphore
    connection_semaphore,\* free permits of utils.connection_semaphore
    task,                \* per host: the scan_host coroutine's frame
    env,                 \* what the network may still do in this run
    streams_txt          \* streams.txt as main's save_streams call left it

\* StreamMonitor (stream_monitor.py) and what it works on
VARIABLES
    mon_pc,              \* position of start_monitoring
    monitor_running,     \* StreamMonitor.monitor_running
    initial_streams,     \* the seed set start_monitoring was called with
    active_streams,      \* StreamMonitor.active_streams: the records, in key order
    probe,               \* per url: position of its monitor_stream call
    active_file,         \* active_streams.json
    history_file,        \* stream_history.json
    now,                 \* datetime.now(), in seconds
    verified,            \* urls a probe of which passed content verification
    last_saved,          \* the record of the last save_stream_info call
    saved,               \* the records save_stream_info was called with
    mon_failed           \* something failed in the cycle in progress

monVars == <<mon_pc, monitor_running, initial_streams, active_streams, probe,
             active_file, history_file, now, verified, last_saved,
             saved, mon_failed>>

scanVars == <<network_range, sn_pc, created, result, total_hosts, scan_count,
              successful_scans, failed_scans, discovered_streams,
              scanner_streams, host_semaphore, connection_semaphore, task, env,
              streams_txt>>
vars == <<scanVars, monVars>>

(***************************************************************************)
(* A step of one scan_host task is computed on a pair                      *)
(*   t : the task's frame (position and local variables)                   *)
(*   g : the shared fields the task can write                              *)
(* and returns the pair after the step.  The frame also carries what an    *)
(* observer of the task has seen:                                          *)
(*   cp_ret     what the task's last check_port call returned              *)
(*   last       how the last connection attempt of that call ended         *)
(*   opened     some check_port call of the task returned True             *)
(*   tried      candidate urls requested by the prober call in progress    *)
(*   answered   the candidates of that call (path, variant) whose request  *)
(*              was answered by a live stream, in request order            *)
(*   prober_exc an exception left a protocol prober of the task            *)
(* and `writers`, the number of connections that the check_rtsp call in    *)
(* progress, or the one that has just returned, opened and has not closed. *)
(***************************************************************************)
NewFrame == [pc |-> "new", phase |-> "-", idx |-> 0, attempt |-> 0,
             path |-> 0, sub |-> 0,
             mobile_streams |-> <<>>, all_streams |-> <<>>, streams |-> <<>>,
             cp_ret |-> "none", opened |-> FALSE,
             last |-> "none", tried |-> 0, answered |-> <<>>,
             prober_exc |-> FALSE, writers |-> 0]

Shared == [disc |-> discovered_streams, act |-> scanner_streams,
           succ |-> successful_scans, fail |-> failed_scans,
           cnt |-> scan_count, hsem |-> host_semaphore,
           csem |-> connection_semaphore]

St(t, g) == [t |-> t, g |-> g]

\* Semaphore.release()
Release(n) == n + 1

\* variant: the permit is given back only when the body is left by an exception
FinishHost_KeepsPermit(t, g) ==
    St([NewFrame EXCEPT !.pc = "done", !.opened = t.opened,
                        !.prober_exc = t.prober_exc],
       [g EXCEPT !.disc = IF t.all_streams # <<>> THEN @ \cup ToSet(t.all_streams) ELSE @,
                 !.cnt = @ + 1])

\* scan_host: end of the `async with` body, then `finally`
FinishHost(t, g) ==
    St([NewFrame EXCEPT !.pc = "done", !.opened = t.opened,
                        !.prober_exc = t.prober_exc],
       [g EXCEPT !.disc = IF t.all_streams # <<>> THEN @ \cup ToSet(t.all_streams) ELSE @,
                 !.hsem = Release(@),
                 !.cnt = @ + 1])

\* variant: the permit is given back only at the end of the body
RaiseHost_KeepsPermit(t, g) ==
    St([NewFrame EXCEPT !.pc = "done", !.opened = t.opened,
                        !.prober_exc = t.prober_exc],
       [g EXCEPT !.fail = @ + 1,
                 !.cnt = @ + 1])

\* variant: scan_count is incremented at the end of the body, not in `finally`
RaiseHost_NotCounted(t, g) ==
    St([NewFrame EXCEPT !.pc = "done", !.opened = t.opened,
                        !.prober_exc = t.prober_exc],
       [g EXCEPT !.hsem = Release(@),
                 !.fail = @ + 1])

\* scan_host: an exception leaves the `async with` body: `except Exception`, then `finally`
RaiseHost(t, g) ==
    St([NewFrame EXCEPT !.pc = "done", !.opened = t.opened,
                        !.prober_exc = t.prober_exc],
       [g EXCEPT !.hsem = Release(@),
                 !.fail = @ + 1,
                 !.cnt = @ + 1])

\* entry of check_port: wait for a slot of connection_semaphore
CallCheckPort(t) == [t EXCEPT !.pc = "cp_acquire", !.attempt = 0,
                              !.path = 0, !.sub = 0, !.streams = <<>>]

\* scan_host: next (protocol, port) of the standard loop, or the end of the body
NextEntry(t, g) ==
    IF t.idx < Len(COMMON_STREAMING_PORTS)
    THEN St(CallCheckPort([t EXCEPT !.idx = @ + 1]), g)
    ELSE FinishHost(t, g)

\* scan_host: `if streams:` after the prober of one (protocol, port) returned
EndEntry(t, g) ==
    IF t.streams # <<>>
    THEN NextEntry([t EXCEPT !.all_streams = @ \o t.streams],
                   [g EXCEPT !.succ = @ + 1])
    ELSE NextEntry(t, g)

\* scan_host: `if mobile_streams:` after scan_mobile_ports, then the standard loop
EndMobile(t, g) ==
    LET t1 == [t EXCEPT !.phase = "std", !.idx = 1, !.mobile_streams = <<>>] IN
    IF t.mobile_streams # <<>>
    THEN St(CallCheckPort([t1 EXCEPT !.all_streams = @ \o t.mobile_streams]),
            [g EXCEPT !.succ = @ + 1])
    ELSE St(CallCheckPort(t1), g)

\* scan_mobile_ports: next port of mobile_ports, or return mobile_streams
NextMobilePort(t, g) ==
    IF t.idx < Len(mobile_ports)
    THEN St(CallCheckPort([t EXCEPT !.idx = @ + 1]), g)
    ELSE EndMobile(t, g)

\* the (protocol, port) the task is working on
CurPort(t) == IF t.phase = "mobile" THEN mobile_ports[t.idx]
              ELSE COMMON_STREAMING_PORTS[t.idx][2]
CurProtocol(t) == IF t.phase = "mobile" THEN "mobile_pass"
                  ELSE COMMON_STREAMING_PORTS[t.idx][1]

\* the url the task's prober is asking for
CurUrl(h, t) ==
    CASE t.pc = "verify" /\ t.phase = "mobile" ->
            Url(mobile_protocols[t.sub], h, CurPort(t), mobile_paths[t.path])
      [] t.pc = "verify" ->
            Url(CurProtocol(t), h, CurPort(t), http_video_paths[t.path])
      [] t.pc \in {"rtsp_connect", "rtsp_drain", "rtsp_read", "rtsp_sleep"} ->
            Url("rtsp", h, CurPort(t), rtsp_video_paths[t.path])
      [] OTHER ->
            Url("http", h, CurPort(t), <<hls_video_paths[t.path], hls_variants[t.sub]>>)

\* what scan_host / scan_mobile_ports do with the value check_port returned
PortOpen(t, g) ==
    LET p == CurProtocol(t) IN
    CASE p = "mobile_pass" -> St([t EXCEPT !.pc = "verify", !.path = 1, !.sub = 1], g)
      [] p = "rtsp" -> St([t EXCEPT !.pc = "rtsp_connect", !.path = 1], g)
      [] p = "hls" -> St([t EXCEPT !.pc = "hls_get", !.path = 1, !.sub = 1], g)
      [] p = "rtmp" -> NextEntry(t, g)
      [] p \in {"http", "https"} -> St([t EXCEPT !.pc = "verify", !.path = 1], g)
      [] OTHER -> EndEntry(t, g)

\* variant: the result of check_port is not tested
PortClosed_Ignored(t, g) == PortOpen(t, g)

PortClosed(t, g) ==
    IF t.phase = "mobile" THEN NextMobilePort(t, g) ELSE NextEntry(t, g)

\* check_port raised: in scan_mobile_ports nothing catches it before scan_host's
\* outer handler; in the standard loop the inner `except Exception` does
PortRaised(t, g) ==
    IF t.phase = "mobile" THEN RaiseHost(t, g) ELSE NextEntry(t, g)

\* variant: the slot is released by hand on the two return paths only
AfterAttempt_LeakOnRaise(t, g, o) ==
    CASE o = "connected" ->
            PortOpen([t EXCEPT !.cp_ret = "true", !.opened = TRUE],
                     [g EXCEPT !.csem = Release(@)])
      [] o \in CaughtConnectErrors ->
            IF t.attempt + 1 < PortAttempts
            THEN St([t EXCEPT !.pc = "cp_sleep"], g)
            ELSE PortClosed([t EXCEPT !.cp_ret = "false"],
                            [g EXCEPT !.csem = Release(@)])
      [] OTHER ->
            PortRaised([t EXCEPT !.cp_ret = "raise"], g)

\* variant: OSError is missing from the except clause
AfterAttempt_OSErrorEscapes(t, g, o) ==
    CASE o = "connected" ->
            PortOpen([t EXCEPT !.cp_ret = "true", !.opened = TRUE],
                     [g EXCEPT !.csem = Release(@)])
      [] o \in CaughtConnectErrors \ {"oserror"} ->
            IF t.attempt + 1 < PortAttempts
            THEN St([t EXCEPT !.pc = "cp_sleep"], g)
            ELSE PortClosed([t EXCEPT !.cp_ret = "false"],
                            [g EXCEPT !.csem = Release(@)])
      [] OTHER ->
            PortRaised([t EXCEPT !.cp_ret = "raise"],
                       [g EXCEPT !.csem = Release(@)])

\* check_port: one connection attempt has ended with outcome o
AfterAttempt(t, g, o) ==
    CASE o = "connected" ->
            PortOpen([t EXCEPT !.cp_ret = "true", !.opened = TRUE],
                     [g EXCEPT !.csem = Release(@)])
      [] o \in CaughtConnectErrors ->
            IF t.attempt + 1 < PortAttempts
            THEN St([t EXCEPT !.pc = "cp_sleep"], g)
            ELSE PortClosed([t EXCEPT !.cp_ret = "false"],
                            [g EXCEPT !.csem = Release(@)])
      [] OTHER ->
            PortRaised([t EXCEPT !.cp_ret = "raise"],
                       [g EXCEPT !.csem = Release(@)])

(***************************************************************************)
(* The probers.                                                            *)
(***************************************************************************)
\* verify_active_stream returns ok; True only after it recorded the url in
\* active_streams (every exception is caught inside and gives False)
AfterVerify(h, t, g, ok) ==
    LET u == CurUrl(h, t)
        g1 == IF ok THEN [g EXCEPT !.act = @ \cup {u}] ELSE g
    IN
    IF t.phase = "mobile"
    THEN LET t1 == IF ok THEN [t EXCEPT !.mobile_streams = Append(@, u)] ELSE t IN
         IF t.sub < Len(mobile_protocols)
         THEN St([t1 EXCEPT !.sub = @ + 1], g1)
         ELSE IF t.path < Len(mobile_paths)
              THEN St([t1 EXCEPT !.path = @ + 1, !.sub = 1], g1)
              ELSE NextMobilePort(t1, g1)
    ELSE LET t1 == IF ok THEN [t EXCEPT !.streams = Append(@, u)] ELSE t IN
         IF t.path < Len(http_video_paths)
         THEN St([t1 EXCEPT !.path = @ + 1], g1)
         ELSE EndEntry(t1, g1)

\* check_rtsp: next candidate path, or `return streams`
RtspNextPath(t, g) ==
    IF t.path < Len(rtsp_video_paths)
    THEN St([t EXCEPT !.pc = "rtsp_connect", !.path = @ + 1], g)
    ELSE EndEntry(t, g)

\* reader, writer = await asyncio.open_connection(..) / writer.close()
OpenWriter(t) == [t EXCEPT !.writers = @ + 1]
CloseWriter(t) == [t EXCEPT !.writers = @ - 1]

\* check_rtsp: asyncio.open_connection(ip, port) has ended
RtspConnectOutcomes == {"ok", "oserror"}
AfterRtspConnect(t, g, o) ==
    IF o = "ok" THEN St(OpenWriter([t EXCEPT !.pc = "rtsp_drain"]), g)
    ELSE St([t EXCEPT !.pc = "rtsp_sleep"], g)

\* check_rtsp: writer.write(..); await writer.drain() has ended
RtspDrainOutcomes == {"ok", "oserror"}
AfterRtspDrain(t, g, o) ==
    IF o = "ok" THEN St([t EXCEPT !.pc = "rtsp_read"], g)
    ELSE St([t EXCEPT !.pc = "rtsp_sleep"], g)

\* what reader.read(1024) can deliver: the reply, word by word (<<>> is the
\* end of the stream)
RtspResponses == { <<"RTSP/1.0", "200", "OK">>, <<"RTSP/1.1", "200", "OK">>,
                   <<"RTSP/1.0", "404", "Not Found">>,
                   <<"RTSP/1.0", "401", "Unauthorized">>,
                   <<"HTTP/1.1", "200", "OK">>, <<>> }

\* b"<a> <b>" in data
Contains2(data, a, b) ==
    \E i \in 1..(Len(data) - 1) : data[i] = a /\ data[i + 1] = b

\* check_rtsp: wait_for(reader.read(1024), 15.0) has ended (with data, by the
\* timeout or by an OSError); the writer is closed in `finally`
RtspReadOutcomes ==
    {[kind |-> "data", data |-> d] : d \in RtspResponses}
        \cup {[kind |-> k, data |-> <<>>] : k \in {"timeout", "oserror"}}

\* variant: any reply of an RTSP server is taken for a stream, as
\* validate_protocol_response(data, 'rtsp') does
AfterRtspRead_AnyRtspReply(h, t, g, o) ==
    LET c == CloseWriter(t) IN
    CASE o.kind = "data" ->
            IF \E i \in 1..Len(o.data) : o.data[i] \in {"RTSP/1.0", "RTSP/1.1"}
            THEN RtspNextPath([c EXCEPT !.streams = Append(@, CurUrl(h, t))],
                              [g EXCEPT !.act = @ \cup {CurUrl(h, t)}])
            ELSE RtspNextPath(c, g)
      [] o.kind = "timeout" -> RtspNextPath(c, g)
      [] OTHER -> St([c EXCEPT !.pc = "rtsp_sleep"], g)

\* c is the frame after `finally: writer.close(); await writer.wait_closed()`
AfterRtspRead(h, t, g, o) ==
    LET c == CloseWriter(t) IN
    CASE o.kind = "data" ->
            IF Contains2(o.data, "RTSP/1.0", "200") \/ Contains2(o.data, "RTSP/1.1", "200")
            THEN RtspNextPath([c EXCEPT !.streams = Append(@, CurUrl(h, t))],
                              [g EXCEPT !.act = @ \cup {CurUrl(h, t)}])
            ELSE RtspNextPath(c, g)
      [] o.kind = "timeout" -> RtspNextPath(c, g)
      [] OTHER -> St([c EXCEPT !.pc = "rtsp_sleep"], g)

\* check_hls: next variant / path, or `return streams`
HlsNext(t, g) ==
    IF t.sub < Len(hls_variants)
    THEN St([t EXCEPT !.pc = "hls_get", !.sub = @ + 1], g)
    ELSE IF t.path < Len(hls_video_paths)
         THEN St([t EXCEPT !.pc = "hls_get", !.path = @ + 1, !.sub = 1], g)
         ELSE EndEntry(t, g)

\* what session.get(url) can deliver: a status and, as far as check_hls looks
\* at it, the text of the body (the markers it contains)
HlsResponses ==
    [status : {200}, text : {{"#EXTM3U", "#EXTINF"}, {"#EXTM3U", "#EXT-X-STREAM-INF"},
                             {"#EXTM3U"}, {"#EXTINF"}, {}}]
        \cup [status : {404, 500}, text : {{"#EXTM3U", "#EXTINF"}, {}}]

\* check_hls: session.get(url) and, on status 200, response.text() have ended.
\*   response     a status and a body
\*   client_error aiohttp.ClientError / asyncio.TimeoutError (caught)
\*   decode_error response.text() raised UnicodeDecodeError (not caught in
\*                check_hls: it leaves check_hls and is caught by scan_host's
\*                inner `except Exception`, where `streams` is still [])
HlsGetOutcomes ==
    {[kind |-> "response", status |-> r.status, text |-> r.text] : r \in HlsResponses}
        \cup {[kind |-> k, status |-> 200, text |-> {}] : k \in {"decode_error"}}
        \cup {[kind |-> k, status |-> 0, text |-> {}] : k \in {"client_error"}}

\* variant: the status of the response is not looked at
AfterHlsGet_IgnoresStatus(h, t, g, o) ==
    CASE o.kind = "response" ->
            IF "#EXTM3U" \in o.text
                  /\ ("#EXT-X-STREAM-INF" \in o.text \/ "#EXTINF" \in o.text)
            THEN HlsNext([t EXCEPT !.streams = Append(@, CurUrl(h, t))],
                         [g EXCEPT !.act = @ \cup {CurUrl(h, t)}])
            ELSE HlsNext(t, g)
      [] o.kind = "client_error" -> St([t EXCEPT !.pc = "hls_sleep"], g)
      [] OTHER -> NextEntry([t EXCEPT !.streams = <<>>], g)

AfterHlsGet(h, t, g, o) ==
    CASE o.kind = "response" ->
            IF /\ o.status = 200
               /\ "#EXTM3U" \in o.text
               /\ ("#EXT-X-STREAM-INF" \in o.text \/ "#EXTINF" \in o.text)
            THEN HlsNext([t EXCEPT !.streams = Append(@, CurUrl(h, t))],
                         [g EXCEPT !.act = @ \cup {CurUrl(h, t)}])
            ELSE HlsNext(t, g)
      [] o.kind = "client_error" -> St([t EXCEPT !.pc = "hls_sleep"], g)
      [] OTHER -> NextEntry([t EXCEPT !.streams = <<>>], g)

(***************************************************************************)
(* Environment: only the addresses in Devices answer at all; env says how  *)
(* many ports may still answer, how many urls may still be confirmed and   *)
(* how many faults may still happen in this run.                           *)
(***************************************************************************)
Pay(h, field) ==
    IF field = "free" THEN UNCHANGED env
    ELSE /\ h \in Devices
         /\ env[field] > 0
         /\ env' = [env EXCEPT ![field] = @ - 1]

\* the observer's notes on a step result r
OutcomeClass(o) == IF o \in {"timeout", "refused", "oserror"} THEN "failed" ELSE o
NoteAttempt(r, o) ==
    IF r.t.pc = "done" THEN r ELSE [r EXCEPT !.t.last = OutcomeClass(o)]
NoteRequest(r, n) ==
    IF r.t.pc = "done" THEN r ELSE [r EXCEPT !.t.tried = n + 1]
NoteAnswer(r, t, yes) ==
    IF yes /\ r.t.pc # "done"
    THEN [r EXCEPT !.t.answered = Append(@, <<t.path, t.sub>>)] ELSE r
NoteProberExc(r, o) ==
    IF o.kind = "decode_error" THEN [r EXCEPT !.t.prober_exc = TRUE] ELSE r

\* the task of host h takes the step whose result is r
Apply(h, r) ==
    \E x \in {r} :
        /\ task' = [task EXCEPT ![h] = x.t]
        /\ discovered_streams' = x.g.disc
        /\ scanner_streams' = x.g.act
        /\ successful_scans' = x.g.succ
        /\ failed_scans' = x.g.fail
        /\ scan_count' = x.g.cnt
        /\ host_semaphore' = x.g.hsem
        /\ connection_semaphore' = x.g.csem
        /\ UNCHANGED <<network_range, sn_pc, created, result, total_hosts>>
        /\ UNCHANGED <<streams_txt, monVars>>

(***************************************************************************)
(* scan_network                                                            *)
(***************************************************************************)
\* variant: the missing range is counted as a failed scan
ScanNetworkStart_CountsFailure ==
    /\ sn_pc = "start"
    /\ total_hosts' = Len(network_range)
    /\ IF network_range = <<>>
       THEN sn_pc' = "returned" /\ result' = {} /\ failed_scans' = failed_scans + 1
       ELSE sn_pc' = "creating" /\ UNCHANGED <<result, failed_scans>>
    /\ UNCHANGED <<network_range, created, scan_count, successful_scans,
                   discovered_streams, scanner_streams,
                   host_semaphore, connection_semaphore, task, env>>
    /\ UNCHANGED <<streams_txt, monVars>>

\* network_range = get_network_range(); total_hosts = len(..);
\* `if not network_range: return set()`
ScanNetworkStart ==
    /\ sn_pc = "start"
    /\ total_hosts' = Len(network_range)
    /\ IF network_range = <<>>
       THEN sn_pc' = "returned" /\ result' = {}
       ELSE sn_pc' = "creating" /\ UNCHANGED result
    /\ UNCHANGED <<network_range, created, scan_count, successful_scans,
                   failed_scans, discovered_streams, scanner_streams,
                   host_semaphore, connection_semaphore, task, env>>
    /\ UNCHANGED <<streams_txt, monVars>>

\* task = asyncio.create_task(self.scan_host(ip, session)); await asyncio.sleep(0.1)
CreateTask ==
    /\ sn_pc = "creating"
    /\ created < Len(network_range)
    /\ created' = created + 1
    /\ task' = [task EXCEPT ![network_range[created + 1]].pc = "host_acquire"]
    /\ UNCHANGED <<network_range, sn_pc, result, total_hosts, scan_count,
                   successful_scans, failed_scans, discovered_streams,
                   scanner_streams, host_semaphore, connection_semaphore, env>>
    /\ UNCHANGED <<streams_txt, monVars>>

\* await asyncio.gather(*tasks); ...; return self.discovered_streams
GatherReturn ==
    /\ sn_pc = "creating"
    /\ created = Len(network_range)
    /\ \A i \in 1..created : task[network_range[i]].pc = "done"
    /\ sn_pc' = "returned"
    /\ result' = discovered_streams
    /\ UNCHANGED <<network_range, created, total_hosts, scan_count,
                   successful_scans, failed_scans, discovered_streams,
                   scanner_streams, host_semaphore, connection_semaphore,
                   task, env>>
    /\ UNCHANGED <<streams_txt, monVars>>

(***************************************************************************)
(* main                                                                    *)
(***************************************************************************)
\* streams = await scanner.scan_network(); `if streams:` await save_streams(streams)
SaveStreams ==
    /\ sn_pc = "returned"
    /\ result # {}
    /\ ~streams_txt.written
    /\ streams_txt' = [written |-> TRUE, urls |-> result]
    /\ UNCHANGED <<network_range, sn_pc, created, result, total_hosts, scan_count,
                   successful_scans, failed_scans, discovered_streams,
                   scanner_streams, host_semaphore, connection_semaphore,
                   task, env>>
    /\ UNCHANGED monVars

\* a scan_host task is cancelled where it waits: the exception leaves the
\* `async with` blocks it is in (the slot and the permit are given back) and
\* passes `finally`; `except Exception` does not take it
CancelHost(t, g) ==
    IF t.pc \in {"new", "done"} THEN St(t, g)
    ELSE St([NewFrame EXCEPT !.pc = "cancelled", !.opened = t.opened,
                            !.prober_exc = t.prober_exc],
            [g EXCEPT !.csem = IF t.pc \in {"cp_connect", "cp_sleep"}
                               THEN Release(@) ELSE @,
                      !.hsem = IF t.pc = "host_acquire" THEN @ ELSE Release(@),
                      !.cnt = @ + 1])

\* the loop is torn down: every task that has not finished is cancelled
RECURSIVE CancelAll(_, _, _)
CancelAll(hs, ts, g) ==
    IF hs = {} THEN [ts |-> ts, g |-> g]
    ELSE LET h == CHOOSE x \in hs : TRUE
             r == CancelHost(ts[h], g)
         IN CancelAll(hs \ {h}, [ts EXCEPT ![h] = r.t], r.g)

\* the user interrupts main while it awaits scan_network: scan_network is left
\* without returning, main prints "Scan interrupted by user." at most, and
\* the program ends
Interrupt ==
    /\ sn_pc = "creating"
    /\ sn_pc' = "interrupted"
    /\ \E r \in {CancelAll(Hosts, task, Shared)} :
          /\ task' = r.ts
          /\ scan_count' = r.g.cnt
          /\ host_semaphore' = r.g.hsem
          /\ connection_semaphore' = r.g.csem
    /\ UNCHANGED <<network_range, created, result, total_hosts,
                   successful_scans, failed_scans, discovered_streams,
                   scanner_streams, env, streams_txt>>
    /\ UNCHANGED monVars

(***************************************************************************)
(* scan_host and what it calls, one action per resumption of the task      *)
(***************************************************************************)
\* Semaphore.acquire(): possible when a permit is free
CanAcquire(n) == n > 0

\* async with self.host_semaphore: ... mobile_streams = await scan_mobile_ports
HostAcquire(h) ==
    /\ task[h].pc = "host_acquire"
    /\ CanAcquire(host_semaphore)
    /\ Apply(h, St(CallCheckPort([task[h] EXCEPT !.phase = "mobile", !.idx = 1]),
                   [Shared EXCEPT !.hsem = @ - 1]))
    /\ UNCHANGED env

\* check_port: async with connection_semaphore, first open_connection starts
CpAcquire(h) ==
    /\ task[h].pc = "cp_acquire"
    /\ CanAcquire(connection_semaphore)
    /\ Apply(h, St([task[h] EXCEPT !.pc = "cp_connect", !.cp_ret = "none",
                                   !.last = "none", !.tried = 0,
                                   !.answered = <<>>, !.writers = 0],
                   [Shared EXCEPT !.csem = @ - 1]))
    /\ UNCHANGED env

\* check_port: the connection attempt ends
CpConnect(h) ==
    /\ task[h].pc = "cp_connect"
    /\ \E o \in ConnectOutcomes :
          /\ Pay(h, CASE o = "connected" -> "open" [] o = "other" -> "fault"
                   [] OTHER -> "free")
          /\ Apply(h, NoteAttempt(AfterAttempt(task[h], Shared, o), o))

\* check_port: asyncio.sleep(0.5) ends, next attempt starts
CpSleep(h) ==
    /\ task[h].pc = "cp_sleep"
    /\ Apply(h, St([task[h] EXCEPT !.pc = "cp_connect", !.attempt = @ + 1], Shared))
    /\ UNCHANGED env

Verify(h) ==
    /\ task[h].pc = "verify"
    /\ \E ok \in BOOLEAN :
          /\ Pay(h, IF ok THEN "live" ELSE "free")
          /\ Apply(h, AfterVerify(h, task[h], Shared, ok))

RtspConnect(h) ==
    /\ task[h].pc = "rtsp_connect"
    /\ \E o \in RtspConnectOutcomes :
          /\ Pay(h, IF o = "ok" THEN "free" ELSE "fault")
          /\ Apply(h, NoteRequest(AfterRtspConnect(task[h], Shared, o),
                                   task[h].tried))

RtspDrain(h) ==
    /\ task[h].pc = "rtsp_drain"
    /\ \E o \in RtspDrainOutcomes :
          /\ Pay(h, IF o = "ok" THEN "free" ELSE "fault")
          /\ Apply(h, AfterRtspDrain(task[h], Shared, o))

\* the reply is that of a server that has the stream: its status line is
\* RTSP/1.0 200 or RTSP/1.1 200
RtspServes(o) ==
    /\ o.kind = "data" /\ Len(o.data) >= 2
    /\ o.data[1] \in {"RTSP/1.0", "RTSP/1.1"} /\ o.data[2] = "200"

RtspRead(h) ==
    /\ task[h].pc = "rtsp_read"
    /\ \E o \in RtspReadOutcomes :
          /\ Pay(h, CASE RtspServes(o) -> "live" [] o.kind = "oserror" -> "fault"
                   [] OTHER -> "free")
          /\ Apply(h, NoteAnswer(AfterRtspRead(h, task[h], Shared, o),
                                  task[h], RtspServes(o)))

\* check_rtsp: asyncio.sleep(2) after a caught connection error ends
RtspSleep(h) ==
    /\ task[h].pc = "rtsp_sleep"
    /\ Apply(h, RtspNextPath(task[h], Shared))
    /\ UNCHANGED env

\* the response is that of a server that has the playlist: status 200 and
\* a body with #EXTM3U and one of #EXT-X-STREAM-INF, #EXTINF
HlsServes(o) ==
    /\ o.kind = "response" /\ o.status = 200
    /\ "#EXTM3U" \in o.text
    /\ o.text \cap {"#EXT-X-STREAM-INF", "#EXTINF"} # {}

HlsGet(h) ==
    /\ task[h].pc = "hls_get"
    /\ \E o \in HlsGetOutcomes :
          /\ Pay(h, CASE HlsServes(o) -> "live" [] o.kind = "response" -> "free"
                   [] OTHER -> "fault")
          /\ Apply(h, NoteProberExc(
                          NoteAnswer(NoteRequest(AfterHlsGet(h, task[h], Shared, o),
                                                 task[h].tried),
                                     task[h], HlsServes(o)), o))

\* check_hls: asyncio.sleep(2) after a caught client error ends
HlsSleep(h) ==
    /\ task[h].pc = "hls_sleep"
    /\ Apply(h, HlsNext(task[h], Shared))
    /\ UNCHANGED env

(***************************************************************************)
(* StreamMonitor (stream_monitor.py).                                      *)
(***************************************************************************)
\* the urls the monitor can be seeded with
MonitorUrls == {"u1", "u2"}

\* the readings of the clock (seconds since start_monitoring was called) at
\* which the event loop resumes the program: at the staleness threshold, a
\* second later, and a day later (the process or the machine was suspended)
Instants == {0, 300, 301, 86400}

\* `> 300` of the clean-up, and the length of the day that timedelta.seconds
\* is counted within
StaleSeconds == 300
DaySeconds == 86400

\* stream_info of monitor_stream (content_type and size are carried along
\* unchanged and left out)
StreamInfo(url, t) ==
    [url |-> url, first_seen |-> t, last_active |-> t, active |-> TRUE]
NoRecord == [url |-> "-", first_seen |-> 0, last_active |-> 0, active |-> FALSE]

\* a file: missing, corrupt (json.load raises JSONDecodeError), notdoc (JSON
\* that is not an object with a 'streams' list: [], {}, {"streams": 5}), or
\* the document {'streams': [..]}
File(kind) == [kind |-> kind, streams |-> <<>>]
Doc(streams) == [kind |-> "doc", streams |-> streams]
FileKinds == {"missing", "corrupt", "notdoc"}

\* [s['url'] for s in data['streams']]
UrlsOf(streams) == {streams[i].url : i \in DOMAIN streams}

\* save_stream_info, first half: active_streams.json.  The result says whether
\* an exception left the half (it is caught by the outer handler of
\* save_stream_info, which ends the call).
\*   FileNotFoundError, JSONDecodeError -> {'streams': []}
\*   notdoc: active_data['streams'] raises KeyError / TypeError
SaveActive(af, r) ==
    IF af.kind = "notdoc" THEN [file |-> af, raised |-> TRUE]
    ELSE LET data == IF af.kind = "doc" THEN af.streams ELSE <<>> IN
         [file |-> Doc(IF r.url \notin UrlsOf(data) THEN Append(data, r) ELSE data),
          raised |-> FALSE]

\* save_stream_info, second half: stream_history.json, written only when the
\* url is new to it
SaveHistory(hf, r) ==
    IF hf.kind = "notdoc" THEN [file |-> hf, raised |-> TRUE]
    ELSE LET data == IF hf.kind = "doc" THEN hf.streams ELSE <<>> IN
         [file |-> IF r.url \notin UrlsOf(data) THEN Doc(Append(data, r)) ELSE hf,
          raised |-> FALSE]

\* save_stream_info(stream_info) on the two files; it never raises
save_stream_info(files, r) ==
    LET a == SaveActive(files.active, r) IN
    IF a.raised THEN [active |-> a.file, history |-> files.history, raised |-> TRUE]
    ELSE LET h == SaveHistory(files.history, r) IN
         [active |-> a.file, history |-> h.file, raised |-> h.raised]

\* self.active_streams[url] = stream_info (a dict keeps the place of a key)
SetItem(reg, r) ==
    IF r.url \in UrlsOf(reg)
    THEN [i \in DOMAIN reg |-> IF reg[i].url = r.url THEN r ELSE reg[i]]
    ELSE Append(reg, r)

\* (current_time - last_active).seconds: the seconds of the difference within
\* the day, the days are a separate field of the timedelta
TimedeltaSeconds(d) == d % DaySeconds

\* the clean-up of start_monitoring over list(self.active_streams.keys()):
\* recs are the records still to look at, files the two files so far
RECURSIVE CleanUp(_, _, _)
CleanUp(recs, files, current_time) ==
    IF recs = <<>>
    THEN [reg |-> <<>>, files |-> files, evicted |-> <<>>, raised |-> FALSE]
    ELSE LET r == Head(recs) IN
         IF TimedeltaSeconds(current_time - r.last_active) > StaleSeconds
         THEN LET expired == [r EXCEPT !.active = FALSE]
                  sv == save_stream_info(files, expired)
                  rest == CleanUp(Tail(recs),
                                  [active |-> sv.active, history |-> sv.history],
                                  current_time)
              IN [rest EXCEPT !.evicted = <<expired>> \o @,
                              !.raised = @ \/ sv.raised]
         ELSE LET rest == CleanUp(Tail(recs), files, current_time)
              IN [rest EXCEPT !.reg = <<r>> \o @]

\* is_video_content_type(content_type)
ContentTypes == {"video/mp4", "application/x-mpegurl", "text/html", ""}
is_video_content_type(content_type) ==
    content_type \in {"video/mp4", "application/x-mpegurl"}

\* the first 8192 bytes of the body, as the marks validate_protocol_response
\* looks for in them (<<>> is an empty body)
Chunks == { <<"mdat">>, <<"ftyp", "moov">>, <<"html">>, <<>> }
validate_protocol_response(data) ==
    /\ data # <<>>
    /\ \/ Head(data) = "mdat"
       \/ \E i \in DOMAIN data : data[i] \in {"ftyp", "moov", "mdat", "webm", "FLV"}

\* monitor_stream: session.get(url) has ended, by a response or by an
\* exception (caught by monitor_stream)
MonGetOutcomes ==
    [kind : {"response"}, status : {200, 404}, content_type : ContentTypes]
        \cup {[kind |-> "error", status |-> 0, content_type |-> ""]}

\* variant: the status of the response is not looked at
AfterMonGet_IgnoresStatus(o) ==
    IF o.kind = "response" /\ is_video_content_type(o.content_type)
    THEN "read" ELSE "done"

\* where monitor_stream goes on: to response.content.read(8192), or to its end
AfterMonGet(o) ==
    IF o.kind = "response" /\ o.status = 200 /\ is_video_content_type(o.content_type)
    THEN "read" ELSE "done"

\* monitor_stream: response.content.read(8192) has ended
MonReadOutcomes ==
    [kind : {"chunk"}, chunk : Chunks] \cup {[kind |-> "error", chunk |-> <<>>]}

\* monitor_stream after the read, at current_time: the record is put in the
\* registry and saved, or nothing happens
\* variant: a url that is in the registry keeps the record it has
AfterMonRead_KeepsRecord(url, reg, files, current_time, o) ==
    IF o.kind = "chunk" /\ validate_protocol_response(o.chunk)
    THEN [reg |-> IF url \in UrlsOf(reg) THEN reg
                  ELSE SetItem(reg, StreamInfo(url, current_time)),
          files |-> save_stream_info(files, StreamInfo(url, current_time)),
          calls |-> << StreamInfo(url, current_time) >>]
    ELSE [reg |-> reg,
          files |-> [active |-> files.active, history |-> files.history,
                     raised |-> FALSE],
          calls |-> <<>>]

AfterMonRead(url, reg, files, current_time, o) ==
    IF o.kind = "chunk" /\ validate_protocol_response(o.chunk)
    THEN [reg |-> SetItem(reg, StreamInfo(url, current_time)),
          files |-> save_stream_info(files, StreamInfo(url, current_time)),
          calls |-> << StreamInfo(url, current_time) >>]
    ELSE [reg |-> reg,
          files |-> [active |-> files.active, history |-> files.history,
                     raised |-> FALSE],
          calls |-> <<>>]

\* the observer's notes on the save_stream_info calls of one step
NoteSaved(sv, r) ==
    IF ~sv.distinct \/ \E q \in sv.recs : q.url = r.url /\ q # r
    THEN [distinct |-> FALSE, recs |-> {}]
    ELSE [sv EXCEPT !.recs = @ \cup {r}]
RECURSIVE NoteCalls(_, _)
NoteCalls(sv, calls) ==
    IF calls = <<>> THEN sv ELSE NoteCalls(NoteSaved(sv, Head(calls)), Tail(calls))
LastCall(old, calls) == IF calls = <<>> THEN old ELSE calls[Len(calls)]
Files == [active |-> active_file, history |-> history_file]

(***************************************************************************)
(* start_monitoring, one action per resumption; stop_monitoring; the clock *)
(***************************************************************************)
\* self.monitor_running = True; async with aiohttp.ClientSession()
StartMonitoring ==
    /\ mon_pc = "idle"
    /\ mon_pc' = "top"
    /\ monitor_running' = TRUE
    /\ UNCHANGED <<initial_streams, active_streams, probe, active_file,
                   history_file, now, verified, last_saved, saved,
                   mon_failed>>
    /\ UNCHANGED scanVars

\* variant: `while True`
LoopTop_IgnoresFlag ==
    /\ mon_pc = "top"
    /\ LET streams_to_monitor == initial_streams \cup UrlsOf(active_streams) IN
       /\ initial_streams' = IF initial_streams # {} THEN streams_to_monitor
                             ELSE initial_streams
       /\ IF streams_to_monitor # {}
          THEN /\ mon_pc' = "gather"
               /\ probe' = [u \in MonitorUrls |->
                               IF u \in streams_to_monitor THEN "get" ELSE "-"]
          ELSE mon_pc' = "sweep" /\ UNCHANGED probe
       /\ mon_failed' = FALSE
    /\ UNCHANGED <<monitor_running, active_streams, active_file, history_file,
                   now, verified, last_saved, saved>>
    /\ UNCHANGED scanVars

\* while self.monitor_running: streams_to_monitor = initial_streams or set();
\* streams_to_monitor.update(self.active_streams.keys()); the monitor_stream
\* calls of the cycle start with asyncio.gather
LoopTop ==
    /\ mon_pc = "top"
    /\ IF ~monitor_running
       THEN /\ mon_pc' = "returned"
            /\ UNCHANGED <<initial_streams, probe, mon_failed>>
       ELSE LET streams_to_monitor == initial_streams \cup UrlsOf(active_streams) IN
            /\ initial_streams' = IF initial_streams # {} THEN streams_to_monitor
                                  ELSE initial_streams
            /\ IF streams_to_monitor # {}
               THEN /\ mon_pc' = "gather"
                    /\ probe' = [u \in MonitorUrls |->
                                    IF u \in streams_to_monitor THEN "get" ELSE "-"]
               ELSE mon_pc' = "sweep" /\ UNCHANGED probe
            /\ mon_failed' = FALSE
    /\ UNCHANGED <<monitor_running, active_streams, active_file, history_file,
                   now, verified, last_saved, saved>>
    /\ UNCHANGED scanVars

\* monitor_stream(url): session.get(url) ends
ProbeGet(u) ==
    /\ mon_pc = "gather"
    /\ probe[u] = "get"
    /\ \E o \in MonGetOutcomes :
          /\ probe' = [probe EXCEPT ![u] = AfterMonGet(o)]
          /\ verified' = IF o.status = 200 /\ is_video_content_type(o.content_type)
                         THEN verified \cup {u} ELSE verified
          /\ mon_failed' = (mon_failed \/ o.kind = "error")
    /\ UNCHANGED <<mon_pc, monitor_running, initial_streams, active_streams,
                   active_file, history_file, now, last_saved, saved>>
    /\ UNCHANGED scanVars

\* monitor_stream(url): response.content.read(8192) ends; on a video chunk
\* the record is put in the registry and saved
ProbeRead(u) ==
    /\ mon_pc = "gather"
    /\ probe[u] = "read"
    /\ \E o \in MonReadOutcomes :
          LET r == AfterMonRead(u, active_streams, Files, now, o) IN
          /\ probe' = [probe EXCEPT ![u] = "done"]
          /\ active_streams' = r.reg
          /\ active_file' = r.files.active
          /\ history_file' = r.files.history
          /\ last_saved' = LastCall(last_saved, r.calls)
          /\ saved' = NoteCalls(saved, r.calls)
          /\ mon_failed' = (mon_failed \/ o.kind = "error" \/ r.files.raised)
    /\ UNCHANGED <<mon_pc, monitor_running, initial_streams, now, verified>>
    /\ UNCHANGED scanVars

\* variant: the wait ends with the first monitor_stream that ends
MonitorGather_FirstCompleted ==
    /\ mon_pc = "gather"
    /\ \E u \in MonitorUrls : probe[u] = "done"
    /\ mon_pc' = "sweep"
    /\ probe' = [u \in MonitorUrls |-> "-"]
    /\ UNCHANGED <<monitor_running, initial_streams, active_streams, active_file,
                   history_file, now, verified, last_saved, saved,
                   mon_failed>>
    /\ UNCHANGED scanVars

\* await asyncio.gather(*tasks) returns when every monitor_stream has ended
MonitorGather ==
    /\ mon_pc = "gather"
    /\ \A u \in MonitorUrls : probe[u] \in {"-", "done"}
    /\ mon_pc' = "sweep"
    /\ probe' = [u \in MonitorUrls |-> "-"]
    /\ UNCHANGED <<monitor_running, initial_streams, active_streams, active_file,
                   history_file, now, verified, last_saved, saved,
                   mon_failed>>
    /\ UNCHANGED scanVars

\* the clean-up of the cycle, at current_time = datetime.now(), then
\* asyncio.sleep(10); or an exception leaves the loop body and is caught by
\* `except Exception` of the loop, then asyncio.sleep(5)
Sweep ==
    /\ mon_pc = "sweep"
    /\ \/ LET c == CleanUp(active_streams, Files, now) IN
          /\ mon_pc' = "sleep10"
          /\ active_streams' = c.reg
          /\ active_file' = c.files.active
          /\ history_file' = c.files.history
          /\ last_saved' = LastCall(last_saved, c.evicted)
          /\ saved' = NoteCalls(saved, c.evicted)
          /\ mon_failed' = (mon_failed \/ c.raised)
       \/ /\ mon_pc' = "sleep5"
          /\ mon_failed' = TRUE
          /\ UNCHANGED <<active_streams, active_file, history_file, last_saved,
                         saved>>
    /\ UNCHANGED <<monitor_running, initial_streams, probe, now, verified>>
    /\ UNCHANGED scanVars

\* asyncio.sleep(10) ends: back to the `while`
Sleep10 ==
    /\ mon_pc = "sleep10"
    /\ mon_pc' = "top"
    /\ UNCHANGED <<monitor_running, initial_streams, active_streams, probe,
                   active_file, history_file, now, verified, last_saved,
                   saved, mon_failed>>
    /\ UNCHANGED scanVars

\* variant: the handler of the loop logs the error and leaves the loop
Backoff_LeavesLoop ==
    /\ mon_pc = "sleep5"
    /\ mon_pc' = "returned"
    /\ UNCHANGED <<monitor_running, initial_streams, active_streams, probe,
                   active_file, history_file, now, verified, last_saved,
                   saved, mon_failed>>
    /\ UNCHANGED scanVars

\* asyncio.sleep(5) of the loop's handler ends: back to the `while`
Backoff ==
    /\ mon_pc = "sleep5"
    /\ mon_pc' = "top"
    /\ UNCHANGED <<monitor_running, initial_streams, active_streams, probe,
                   active_file, history_file, now, verified, last_saved,
                   saved, mon_failed>>
    /\ UNCHANGED scanVars

\* start_monitoring is suspended in an await: other code of the program runs
Suspended == mon_pc \in {"gather", "sleep10", "sleep5"}

\* stop_monitoring(), called while start_monitoring is running
StopMonitoring ==
    /\ Suspended
    /\ monitor_running
    /\ monitor_running' = FALSE
    /\ UNCHANGED <<mon_pc, initial_streams, active_streams, probe, active_file,
                   history_file, now, verified, last_saved, saved,
                   mon_failed>>
    /\ UNCHANGED scanVars

\* time passes while start_monitoring is suspended
Tick ==
    /\ Suspended
    /\ \E t \in Instants : t > now /\ now' = t
    /\ UNCHANGED <<mon_pc, monitor_running, initial_streams, active_streams,
                   probe, active_file, history_file, verified, last_saved, saved,
                   mon_failed>>
    /\ UNCHANGED scanVars

Ranges == {[i \in 1..n |-> i] : n \in 0..MaxHosts}

\* the scanner after construction, before scan_network
ScanIdle ==
    /\ sn_pc = "start"
    /\ created = 0
    /\ result = {}
    /\ total_hosts = 0
    /\ scan_count = 0
    /\ successful_scans = 0
    /\ failed_scans = 0
    /\ discovered_streams = {}
    /\ scanner_streams = {}
    /\ host_semaphore = max_concurrent_hosts
    /\ connection_semaphore = MAX_CONCURRENT_SCANS
    /\ task = [h \in Hosts |-> NewFrame]
    /\ env = NetworkBudget
    /\ streams_txt = [written |-> FALSE, urls |-> {}]

\* StreamMonitor.__init__, and the files as they are gone, unreadable or empty
MonitorIdle ==
    /\ mon_pc = "idle"
    /\ monitor_running = FALSE
    /\ active_streams = <<>>
    /\ probe = [u \in MonitorUrls |-> "-"]
    /\ now = 0
    /\ verified = {}
    /\ last_saved = NoRecord
    /\ saved = [distinct |-> TRUE, recs |-> {}]
    /\ mon_failed = FALSE

Init ==
    /\ network_range \in Ranges
    /\ ScanIdle
    /\ MonitorIdle
    /\ initial_streams = {}
    /\ active_file = File("missing")
    /\ history_file = File("missing")

Next ==
    \/ ScanNetworkStart
    \/ CreateTask
    \/ GatherReturn
    \/ \E h \in Hosts : HostAcquire(h)
    \/ \E h \in Hosts : CpAcquire(h)
    \/ \E h \in Hosts : CpConnect(h)
    \/ \E h \in Hosts : CpSleep(h)
    \/ \E h \in Hosts : Verify(h)
    \/ \E h \in Hosts : RtspConnect(h)
    \/ \E h \in Hosts : RtspDrain(h)
    \/ \E h \in Hosts : RtspRead(h)
    \/ \E h \in Hosts : RtspSleep(h)
    \/ \E h \in Hosts : HlsGet(h)
    \/ \E h \in Hosts : HlsSleep(h)

Spec == Init /\ [][Next]_vars

(***************************************************************************)
(* The scan under the event loop's scheduling: a coroutine that can go on  *)
(* is resumed, every network operation ends (by its timeout at the         *)
(* latest), every sleep ends, and a released permit wakes a waiter.        *)
(***************************************************************************)
\* the addresses of the networks scanned under this scheduling
FairHosts == {1, 2, 3}

ScanFairInit ==
    /\ network_range \in {r \in Ranges : ToSet(r) \subseteq FairHosts}
    /\ ScanIdle
    /\ MonitorIdle
    /\ initial_streams = {}
    /\ active_file = File("missing")
    /\ history_file = File("missing")

ScanFairSpec == ScanFairInit /\ [][Next]_vars /\ WF_vars(Next)

(***************************************************************************)
(* The whole run of main up to save_streams, on a network of at most as    *)
(* many hosts as there are host permits, with the user free to interrupt.  *)
(***************************************************************************)
MainInit ==
    /\ network_range \in {r \in Ranges : Len(r) <= max_concurrent_hosts}
    /\ ScanIdle
    /\ MonitorIdle
    /\ initial_streams = {}
    /\ active_file = File("missing")
    /\ history_file = File("missing")

MainNext ==
    \/ Next
    \/ SaveStreams
    \/ Interrupt

MainSpec == MainInit /\ [][MainNext]_vars

(***************************************************************************)
(* The monitor on its own: start_monitoring(initial_streams) of a fresh     *)
(* StreamMonitor, stop_monitoring called by other code at any time.        *)
(***************************************************************************)
MonInit ==
    /\ network_range = <<>>
    /\ ScanIdle
    /\ MonitorIdle
    /\ initial_streams \in {{}, {"u1"}, MonitorUrls}
    /\ active_file \in {File(k) : k \in FileKinds}
    /\ history_file \in {File("missing"), File("notdoc")}

MonNext ==
    \/ StartMonitoring
    \/ LoopTop
    \/ \E u \in MonitorUrls : ProbeGet(u)
    \/ \E u \in MonitorUrls : ProbeRead(u)
    \/ MonitorGather
    \/ Sweep
    \/ Sleep10
    \/ Backoff
    \/ StopMonitoring
    \/ Tick

MonSpec == MonInit /\ [][MonNext]_vars

\* the event loop resumes every coroutine that can go on: the requests end
\* (by their timeouts at the latest) and the sleeps end
MonStep ==
    \/ LoopTop
    \/ \E u \in MonitorUrls : ProbeGet(u)
    \/ \E u \in MonitorUrls : ProbeRead(u)
    \/ MonitorGather
    \/ Sweep
    \/ Sleep10
    \/ Backoff

\* the monitor started with its two files absent or, the first, unreadable
MonFairInit ==
    /\ network_range = <<>>
    /\ ScanIdle
    /\ MonitorIdle
    /\ initial_streams \in {{}, {"u1"}, MonitorUrls}
    /\ active_file \in {File("missing"), File("notdoc")}
    /\ history_file = File("missing")

MonFairSpec == MonFairInit /\ [][MonNext]_vars /\ WF_vars(MonStep)

(***************************************************************************)
(* Properties                                                              *)
(***************************************************************************)
\* tasks inside check_port's `async with connection_semaphore` body
SlotHolders == {h \in Hosts : task[h].pc \in {"cp_connect", "cp_sleep"}}
\* tasks inside scan_host's `async with self.host_semaphore` body
PermitHolders == {h \in Hosts : task[h].pc \notin {"new", "host_acquire", "done"}}
\* tasks with a raw TCP connection attempt (asyncio.open_connection) in flight
Connecting == {h \in Hosts : task[h].pc \in {"cp_connect", "rtsp_connect"}}
\* tasks inside a protocol prober
InProber(t) == t.pc \in {"verify", "rtsp_connect", "rtsp_drain", "rtsp_read",
                         "rtsp_sleep", "hls_get", "hls_sleep"}

\* C1: at most MAX_CONCURRENT_SCANS raw TCP connection attempts (those of
\* check_port and those of check_rtsp, over all hosts) are in flight at once.
C1_GlobalConnectionGate == Cardinality(Connecting) <= MAX_CONCURRENT_SCANS

\* C2: whenever no task is inside check_port's guarded body, every slot of
\* connection_semaphore is free, however the earlier calls ended.
C2_SlotReleased ==
    SlotHolders = {} => connection_semaphore = MAX_CONCURRENT_SCANS

\* a check_port call has ended by an exception (only that makes scan_host
\* count a failed scan), others have returned, and no call holds a slot
C2_Witness ==
    /\ failed_scans > 0
    /\ \E h \in Hosts : task[h].cp_ret = "false"
    /\ SlotHolders = {}

\* C3: check_port makes at most 2 connection attempts per call, returns True
\* as soon as an attempt connects, returns False (does not raise) when every
\* attempt ended in a timeout, a refusal or an OS error, and starts a second
\* attempt only after the first one failed.
C3_CheckPortAttempts ==
    \A h \in Hosts :
        LET t == task[h]
            inCall == t.pc \in {"cp_connect", "cp_sleep"}
        IN
        /\ inCall => t.attempt < 2
        /\ t.pc = "cp_connect" /\ t.attempt = 0 => t.last = "none"
        /\ t.pc = "cp_connect" /\ t.attempt > 0 => t.last = "failed"
        /\ t.pc = "cp_sleep" => t.last = "failed"
        /\ t.last = "connected" => ~inCall /\ t.cp_ret = "true"
        /\ t.cp_ret = "true" => t.last = "connected"
        /\ t.last = "failed" /\ ~inCall => t.cp_ret = "false"
        /\ t.cp_ret = "false" => t.last = "failed"

\* one call has returned False after failed attempts, another has returned True
C3_Witness ==
    /\ \E h \in Hosts : task[h].cp_ret = "false" /\ task[h].last = "failed"
    /\ \E h \in Hosts : task[h].cp_ret = "true" /\ task[h].last = "connected"

\* C4: at most max_concurrent_hosts scan_host calls are inside the section
\* guarded by host_semaphore, and every permit taken is given back on every
\* exit of scan_host (the free permits are exactly those not held).
C4_HostGate ==
    /\ Cardinality(PermitHolders) <= max_concurrent_hosts
    /\ host_semaphore = max_concurrent_hosts - Cardinality(PermitHolders)

\* a scan_host has ended by an exception and the gate is full again
C4_Witness ==
    /\ failed_scans > 0
    /\ Cardinality(PermitHolders) = max_concurrent_hosts
    /\ host_semaphore = 0

\* C5: a prober runs for (host, port) only after check_port(host, port)
\* returned True, and a host none of whose ports answered has no prober
\* call and no url in any list or in the discovered set.
C5_ProbeOnlyOpenPorts ==
    \A h \in Hosts :
        LET t == task[h] IN
        /\ InProber(t) => t.cp_ret = "true" /\ t.opened
        /\ ~t.opened =>
              /\ t.mobile_streams = <<>> /\ t.streams = <<>> /\ t.all_streams = <<>>
              /\ \A u \in discovered_streams \cup scanner_streams : UrlHost(u) # h

\* a host with no open port has been scanned to the end while a prober
\* runs on another host
C5_Witness ==
    /\ \E h \in Hosts : task[h].pc = "done" /\ ~task[h].opened
    /\ \E h \in Hosts : InProber(task[h])

\* C6: scan_network on an empty range returns the empty set, creates no
\* scan_host task and leaves the three counters as they were.
C6_EmptyRange ==
    sn_pc = "returned" /\ network_range = <<>> =>
        /\ result = {}
        /\ created = 0
        /\ \A h \in Hosts : task[h].pc = "new"
        /\ scan_count = 0 /\ successful_scans = 0 /\ failed_scans = 0

C6_Witness == sn_pc = "returned" /\ network_range = <<>>

\* C7: scan_count counts each finished scan_host once, whether it succeeded
\* or raised; it never exceeds total_hosts and equals it when scan_network
\* returns, which happens only after every scan_host has finished.
C7_ScanCount ==
    /\ scan_count = Cardinality({h \in Hosts : task[h].pc = "done"})
    /\ scan_count <= total_hosts
    /\ sn_pc = "returned" =>
          /\ scan_count = total_hosts
          /\ \A i \in 1..Len(network_range) : task[network_range[i]].pc = "done"

\* scan_network has returned from a scan of several hosts, one of which raised
C7_Witness ==
    /\ sn_pc = "returned"
    /\ total_hosts > 1
    /\ failed_scans > 0

\* urls the probers confirmed for (host h, port p) / for host h
ConfirmedAt(h, p) == {u \in scanner_streams : u[2] = h /\ u[3] = p}
ConfirmedOn(h) == {u \in scanner_streams : UrlHost(u) = h}

\* C8: the set scan_network returns is the union over the hosts of the urls
\* their probers confirmed, each once, whatever the interleaving.
C8_ResultIsUnion ==
    sn_pc = "returned" => result = UNION {ConfirmedOn(h) : h \in Hosts}

\* C9: an exception that leaves a protocol prober is counted as a failed
\* scan, the host's remaining checks still run to the end of scan_host, and
\* the other hosts and scan_network do not see it.
C9_ProberExceptionCounted ==
    /\ failed_scans >= Cardinality({h \in Hosts : task[h].prober_exc})
    /\ sn_pc = "returned" =>
          \A i \in 1..Len(network_range) : task[network_range[i]].pc = "done"

\* candidate urls of one check_rtsp / check_hls call
Candidates(protocol) ==
    IF protocol = "rtsp" THEN Len(rtsp_video_paths)
    ELSE Len(hls_video_paths) * Len(hls_variants)

\* C10: when check_rtsp or check_hls has ended for a (host, port), every
\* candidate path has been attempted and every url confirmed for that
\* (host, port) has been returned to scan_host, whatever failed on a path.
C10_PathFailureIsolated ==
    \A h \in Hosts :
        LET t == task[h] IN
        (/\ t.pc = "cp_acquire" /\ t.phase = "std" /\ t.idx > 1
         /\ t.cp_ret = "true"
         /\ COMMON_STREAMING_PORTS[t.idx - 1][1] \in {"rtsp", "hls"}) =>
            /\ t.tried = Candidates(COMMON_STREAMING_PORTS[t.idx - 1][1])
            /\ ConfirmedAt(h, COMMON_STREAMING_PORTS[t.idx - 1][2])
                  \subseteq ToSet(t.all_streams)

\* what scan_host got back from the prober it called for port p
Returned(t, p) == SelectSeq(t.all_streams, LAMBDA u : u[3] = p)

\* C11: check_rtsp(ip, port) returns the urls rtsp://ip:port/path of exactly
\* those candidate paths whose OPTIONS request was answered, within the read
\* timeout, by RTSP/1.0 200 or RTSP/1.1 200, in the order of the paths.
C11_RtspReturnsAnswered ==
    \A h \in Hosts :
        LET t == task[h]
            Expected(p) == [i \in 1..Len(t.answered) |->
                               Url("rtsp", h, p, rtsp_video_paths[t.answered[i][1]])]
        IN
        /\ t.pc \in {"rtsp_connect", "rtsp_drain", "rtsp_read", "rtsp_sleep"} =>
              t.streams = Expected(CurPort(t))
        /\ (/\ t.pc = "cp_acquire" /\ t.phase = "std" /\ t.idx > 1
            /\ t.cp_ret = "true"
            /\ COMMON_STREAMING_PORTS[t.idx - 1][1] = "rtsp") =>
              Returned(t, COMMON_STREAMING_PORTS[t.idx - 1][2])
                  = Expected(COMMON_STREAMING_PORTS[t.idx - 1][2])

\* check_rtsp has returned [rtsp://h:554/live] from a server that answered
\* 200 for 'live' only
C11_Witness ==
    \E h \in Hosts :
        /\ task[h].pc = "cp_acquire" /\ task[h].phase = "std" /\ task[h].idx = 2
        /\ task[h].cp_ret = "true"
        /\ task[h].tried = Len(rtsp_video_paths)
        /\ Returned(task[h], 554) = << Url("rtsp", h, 554, "live") >>

\* C12: check_hls confirms the url http://ip:port/path/variant (appends it
\* to its list and records it as active) if and only if the GET of that url
\* returned status 200 and a body with #EXTM3U and one of
\* #EXT-X-STREAM-INF, #EXTINF; any other status gives no candidate.
C12_HlsConfirmsPlaylists ==
    \A h \in Hosts :
        LET t == task[h]
            Expected(p) ==
                [i \in 1..Len(t.answered) |->
                    Url("http", h, p, <<hls_video_paths[t.answered[i][1]],
                                        hls_variants[t.answered[i][2]]>>)]
        IN
        /\ t.pc \in {"hls_get", "hls_sleep"} =>
              /\ t.streams = Expected(CurPort(t))
              /\ ConfirmedAt(h, CurPort(t)) = ToSet(t.streams)
        /\ (/\ t.pc = "cp_acquire" /\ t.phase = "std" /\ t.idx > 1
            /\ t.cp_ret = "true"
            /\ COMMON_STREAMING_PORTS[t.idx - 1][1] = "hls") =>
              ConfirmedAt(h, COMMON_STREAMING_PORTS[t.idx - 1][2])
                  = ToSet(Expected(COMMON_STREAMING_PORTS[t.idx - 1][2]))

\* check_hls has confirmed the playlist of one variant after another variant
\* of the same path was answered without a playlist
C12_Witness ==
    \E h \in Hosts :
        /\ task[h].pc = "hls_get" /\ task[h].sub = 3
        /\ task[h].streams = << Url("http", h, 8081, <<"video", "playlist.m3u8">>) >>

\* C13: when check_port returns True for an RTMP port of the catalog,
\* scan_host emits a stream url for the RTMP candidates on that port (the
\* step in which the port answers ends with an rtmp url of the host in the
\* host's list or in the discovered set).
C13_RtmpEmitsCandidates ==
    [][\A h \in Hosts :
          (/\ task[h].pc = "cp_connect"
           /\ CurProtocol(task[h]) = "rtmp"
           /\ env'.open < env.open
           /\ task'[h].pc # "cp_connect") =>
              \E u \in discovered_streams' \cup ToSet(task'[h].all_streams) :
                  u[1] = "rtmp" /\ UrlHost(u) = h]_vars

\* C14: a sweep evicts a record if and only if now - last_active exceeds
\* 300 seconds, however large the age: every record older than that is gone
\* from active_streams after the sweep and every other record is kept.
C14_StaleEvicted ==
    [][(mon_pc = "sweep" /\ mon_pc' = "sleep10") =>
          \A i \in DOMAIN active_streams :
              (now - active_streams[i].last_active > 300)
                  <=> (active_streams[i].url \notin UrlsOf(active_streams'))]_vars

\* C15: after the sweep that evicts a record, the history document (as far
\* as it can be read as a document) holds that record in its expired form,
\* active = false.
C15_ExpiredInHistory ==
    [][\A i \in DOMAIN active_streams :
          (/\ active_streams[i].url \notin UrlsOf(active_streams')
           /\ history_file.kind # "notdoc") =>
              /\ history_file'.kind = "doc"
              /\ \E j \in DOMAIN history_file'.streams :
                     history_file'.streams[j]
                         = [active_streams[i] EXCEPT !.active = FALSE]]_vars

\* stop_monitoring has been called while start_monitoring was running
Stopped == ~monitor_running /\ mon_pc # "idle"

\* C16: once stop_monitoring has been called, the cycle in progress runs to
\* its end (the loop is left at its top only), no further probe cycle is
\* started, and start_monitoring eventually returns.
C16_CooperativeStop ==
    /\ [][Stopped =>
             /\ (mon_pc' = "gather" => mon_pc = "gather")
             /\ (mon_pc' = "returned" => mon_pc \in {"top", "returned"})]_vars
    /\ (Stopped ~> (mon_pc = "returned"))

\* stop_monitoring was called while a probe of the cycle was in flight
C16_Witness ==
    /\ Stopped
    /\ mon_pc = "gather"
    /\ \E u \in MonitorUrls : probe[u] = "read"

\* C17: a failure inside a cycle (a probe error, a persistence error, an
\* exception in the loop body) never ends the loop: start_monitoring returns
\* only after stop_monitoring, and after a failure another cycle is started
\* unless stop_monitoring is called.
C17_FailureKeepsLoop ==
    /\ [](mon_pc = "returned" => ~monitor_running)
    /\ (mon_failed ~> (~mon_failed \/ ~monitor_running))

\* the loop's handler has caught an exception and sleeps, not stopped
C17_Witness == mon_pc = "sleep5" /\ mon_failed /\ monitor_running

\* C18: from an active-streams file that is absent or corrupt, saving
\* records with distinct urls leaves a document that holds exactly those
\* records, with their fields.
C18_SaveFromMissingOrCorrupt ==
    (saved.distinct /\ saved.recs # {}) =>
        /\ active_file.kind = "doc"
        /\ ToSet(active_file.streams) = saved.recs
        /\ Len(active_file.streams) = Cardinality(saved.recs)

\* C19: after save_stream_info(r) the active-streams document (when the file
\* can be read as a document) has exactly one entry with r's url, and that
\* entry is r.
C19_UpsertByUrl ==
    (last_saved # NoRecord /\ active_file.kind # "notdoc") =>
        /\ active_file.kind = "doc"
        /\ Cardinality({i \in DOMAIN active_file.streams :
                            active_file.streams[i].url = last_saved.url}) = 1
        /\ \A i \in DOMAIN active_file.streams :
               active_file.streams[i].url = last_saved.url =>
                   active_file.streams[i] = last_saved

\* C20: a url is a key of active_streams only if a monitor_stream probe of
\* it passed the content verification before; a url that was only in the
\* seed set is not in the registry.
C20_RegistryVerified == UrlsOf(active_streams) \subseteq verified

\* one seeded url is in the registry, the other has been probed and is not
C20_Witness ==
    /\ mon_pc = "sleep10"
    /\ initial_streams = MonitorUrls
    /\ UrlsOf(active_streams) = {"u1"}
    /\ "u2" \notin verified

\* C21: when the user interrupts the scan at the top level, the urls
\* discovered so far are returned by scan_network and handed to
\* save_streams, not discarded
C21_InterruptKeepsResults ==
    sn_pc = "interrupted" =>
        /\ result = discovered_streams
        /\ discovered_streams # {} =>
              streams_txt.written /\ streams_txt.urls = discovered_streams

\* the urls a monitor_stream call of the cycle in progress was started for
Probed(p) == {u \in MonitorUrls : p[u] # "-"}

\* C22: a monitor cycle probes exactly the seed set united with the urls in
\* the registry, then sweeps, then sleeps, in that order, and the sweep
\* starts only when every probe of the cycle has ended
C22_CycleOrder ==
    [][/\ (mon_pc = "top" /\ mon_pc' \notin {"top", "returned"}) =>
            LET S == initial_streams \cup UrlsOf(active_streams) IN
            /\ Probed(probe') = S
            /\ mon_pc' = IF S = {} THEN "sweep" ELSE "gather"
       /\ mon_pc = "gather" => Probed(probe') \subseteq Probed(probe)
       /\ (mon_pc = "gather" /\ mon_pc' # "gather") =>
            /\ mon_pc' = "sweep"
            /\ \A u \in Probed(probe) : probe[u] = "done"
       /\ (mon_pc = "sweep" /\ mon_pc' # "sweep") =>
            mon_pc' \in {"sleep10", "sleep5"}
       /\ (mon_pc \in {"sleep10", "sleep5"} /\ mon_pc' # mon_pc) =>
            mon_pc' = "top"
       /\ (mon_pc' = "sweep" /\ mon_pc # "sweep") =>
            mon_pc \in {"top", "gather"}
       /\ (mon_pc' = "sleep10" /\ mon_pc # "sleep10") => mon_pc = "sweep"
      ]_vars

\* a second cycle has probed the seed's two urls, one of them already in
\* the registry, and its sweep is over
C22_Witness ==
    /\ mon_pc = "sleep10"
    /\ initial_streams = MonitorUrls
    /\ \E i, j \in DOMAIN active_streams :
          active_streams[i].last_active # active_streams[j].last_active

\* C23: in check_rtsp the connection opened for a path is closed after
\* the attempt on every outcome (matching or other reply, read timeout,
\* error while the OPTIONS request is sent): none is open when the next
\* path is attempted or when check_rtsp has returned
C23_RtspClosesConnection ==
    \A h \in Hosts :
        task[h].pc \notin {"rtsp_drain", "rtsp_read"} => task[h].writers = 0

\* C24: the prober invocations of one host are issued together and joined:
\* when a prober of the host's standard loop is in flight, the loop has gone
\* through every (protocol, port) pair of the catalog, so that the probers
\* of the other pairs have been started too
C24_ProbersIssuedTogether ==
    \A h \in Hosts :
        (task[h].phase = "std" /\ InProber(task[h])) =>
            task[h].idx = Len(COMMON_STREAMING_PORTS)

\* C25: when a url that is in the registry passes a re-probe (the probe's
\* save_stream_info call is the step's last), the url's record stays where
\* it is under the same key with last_active at the time of the probe, the
\* other records are untouched and the registry has one record for the url
C25_ActiveRefreshed ==
    [][(/\ last_saved' # last_saved
        /\ last_saved'.active
        /\ last_saved'.url \in UrlsOf(active_streams)) =>
           /\ DOMAIN active_streams' = DOMAIN active_streams
           /\ \A i \in DOMAIN active_streams :
                 IF active_streams[i].url = last_saved'.url
                 THEN /\ active_streams'[i].url = last_saved'.url
                      /\ active_streams'[i].last_active = now
                      /\ active_streams'[i].active
                 ELSE active_streams'[i] = active_streams[i]
           /\ Cardinality({i \in DOMAIN active_streams' :
                               active_streams'[i].url = last_saved'.url}) = 1
      ]_vars

\* a url put into the registry at one time has passed a re-probe later: the
\* history document still has its first record
C25_Witness ==
    \E i \in DOMAIN active_streams, j \in DOMAIN history_file.streams :
        /\ history_file.streams[j].url = active_streams[i].url
        /\ history_file.streams[j].last_active < active_streams[i].last_active

\* C26: while a url stays in the registry, the first_seen of its record
\* stays what it was when the record was created; re-verifications
\* change last_active only
C26_FirstSeenStable ==
    [][\A i \in DOMAIN active_streams, j \in DOMAIN active_streams' :
           active_streams'[j].url = active_streams[i].url =>
               active_streams'[j].first_seen = active_streams[i].first_seen
      ]_vars

\* C27: the two gates never deadlock: every scan_host task that was created
\* finishes and scan_network returns, whatever the number of hosts and of
\* permits
C27_GatesNoDeadlock ==
    <>(/\ sn_pc = "returned"
       /\ \A i \in 1..Len(network_range) : task[network_range[i]].pc = "done")

\* scan_network has returned from a scan of more hosts than there are host
\* permits and connection slots, one of which had a stream
C27_Witness ==
    /\ sn_pc = "returned"
    /\ total_hosts > max_concurrent_hosts
    /\ total_hosts > MAX_CONCURRENT_SCANS
    /\ result # {}

\* C28: when several monitor_stream tasks have each saved a different newly
\* verified url, no save is lost: the active-streams document has an entry
\* for every one of those urls
C28_NoLostUpdate ==
    (/\ saved.distinct
     /\ Cardinality(saved.recs) > 1
     /\ \A r \in saved.recs : r.active) =>
        /\ active_file.kind = "doc"
        /\ {r.url : r \in saved.recs} \subseteq UrlsOf(active_file.streams)

====
